---- MODULE Spec2Model ----
(***************************************************************************)
(* A model of the AI Knowledge Assistant front end: the API layer of       *)
(* services/api.ts (conversationAPI, documentAPI, userAPI, authAPI), the   *)
(* SupabaseService and AIService wrappers it calls, the row level security *)
(* policies of supabase-schema.sql that decide which of its requests the   *)
(* backend accepts, and the pages that drive it (chat, admin/users,        *)
(* Layout, _app).                                                          *)
(*                                                                         *)
(* Strings are sequences of chunks [s, n]: a literal chunk has n = 0, a    *)
(* chunk of a document's extracted text has s = the document's file and    *)
(* n = the number of characters taken from the start of that text.  The    *)
(* empty string is the empty sequence.                                     *)
(***************************************************************************)
EXTENDS Integers, Sequences, FiniteSets, TLC

VARIABLES
    session,        \* auth.uid() of the Supabase client session, or NoUser
    users,          \* public.users: id -> profile row
    conversations,  \* public.conversations, in insertion order
    messages,       \* public.messages, in insertion order
    documents,      \* public.documents, in insertion order
    clock,          \* the client clock, new Date(), and the id generator
    convList,       \* chat page: useState conversations
    current,        \* chat page: useState currentConversation (NoConv when null)
    shown,          \* chat page: useState messages
    chat,           \* conversationAPI.chat in flight: its position and locals
    call,           \* the last finished API call: [api, ok, error, authed, writes]
    hfToken,        \* length of NEXT_PUBLIC_HF_API_TOKEN, 0 when not set
    app             \* _app / Layout / admin page state

vars == <<session, users, conversations, messages, documents, clock,
          convList, current, shown, chat, call, hfToken, app>>

-----------------------------------------------------------------------------
(* Bounds of the model *)

MaxChats == 1
MaxConversations == 3

-----------------------------------------------------------------------------
(* Values *)

UserIds == {"u1", "u2"}
NoUser == "none"
NoConv == 0
\* extracted_text is NULL
NoText == -1
Roles == {"super_admin", "admin", "user", "guest"}
Null == "null"

Lit(s) == <<[s |-> s, n |-> 0]>>
Text(file, n) == IF n > 0 THEN <<[s |-> file, n |-> n]>> ELSE <<>>
EmptyStr == <<>>
Truthy(str) == str # EmptyStr

Min(a, b) == IF a < b THEN a ELSE b

RECURSIVE Join(_, _)
Join(strs, sep) ==
    IF strs = <<>> THEN EmptyStr
    ELSE IF Len(strs) = 1 THEN Head(strs)
    ELSE Head(strs) \o sep \o Join(Tail(strs), sep)

Map(seq, F(_)) == [i \in 1..Len(seq) |-> F(seq[i])]

Range(seq) == {seq[i] : i \in 1..Len(seq)}

\* slice(0, n) in the place of slice(-n): the oldest rows, not the newest
SliceFirst(seq, n) ==
    IF Len(seq) <= n THEN seq ELSE SubSeq(seq, 1, n)

\* Array.prototype.slice(-n)
SliceLast(seq, n) ==
    IF Len(seq) <= n THEN seq ELSE SubSeq(seq, Len(seq) - n + 1, Len(seq))

\* Array.prototype.slice(0, -1)
DropLast(seq) == IF seq = <<>> THEN <<>> ELSE SubSeq(seq, 1, Len(seq) - 1)

\* .order('created_at', { ascending: true }) on rows with distinct created_at
RECURSIVE OrderAscending(_)
OrderAscending(rows) ==
    IF rows = <<>> THEN <<>>
    ELSE LET least == CHOOSE i \in 1..Len(rows) :
                          \A j \in 1..Len(rows) : rows[i].created_at <= rows[j].created_at
             rest == [k \in 1..(Len(rows) - 1) |-> IF k < least THEN rows[k] ELSE rows[k + 1]]
         IN  <<rows[least]>> \o OrderAscending(rest)

Reverse(seq) == [i \in 1..Len(seq) |-> seq[Len(seq) + 1 - i]]

\* .order('created_at', { ascending: false })
OrderDescending(rows) == Reverse(OrderAscending(rows))

-----------------------------------------------------------------------------
(* Program constants *)

RecentMessages == 5
DocContextChars == 500

-----------------------------------------------------------------------------
(* Row level security, supabase-schema.sql.  uid is auth.uid(); NoUser is  *)
(* the anonymous client, for which auth.uid() is NULL and no policy holds. *)
(* A policy is modelled by the rows its USING and WITH CHECK expressions   *)
(* admit; permissive policies of one command are OR-ed, and a policy       *)
(* without WITH CHECK uses its USING expression for the new row.           *)

IsActiveAdmin(uid) ==
    /\ uid \in UserIds
    /\ users[uid].role \in {"admin", "super_admin"}
    /\ users[uid].is_active

IsActiveSuperAdmin(uid) ==
    /\ uid \in UserIds
    /\ users[uid].role = "super_admin"
    /\ users[uid].is_active

OwnsConversation(uid, conversation_id) ==
    \E c \in Range(conversations) : c.id = conversation_id /\ c.user_id = uid

MessagesInsertAllowed(uid, row) == OwnsConversation(uid, row.conversation_id)
MessagesSelectVisible(uid, row) == OwnsConversation(uid, row.conversation_id)

ConversationsInsertAllowed(uid, row) == uid # NoUser /\ uid = row.user_id
ConversationsSelectVisible(uid, row) == uid # NoUser /\ uid = row.user_id

DocumentsSelectVisible(uid, row) ==
    \/ uid # NoUser /\ uid = row.uploaded_by
    \/ IsActiveAdmin(uid)

\* public.users FOR UPDATE: the permissive policies are OR-ed; a policy
\* without WITH CHECK checks the new row with its USING expression.
UsersUpdateUsing(uid, old) ==
    \/ uid # NoUser /\ uid = old.id
    \/ IsActiveAdmin(uid)
    \/ IsActiveSuperAdmin(uid)

\* the check of the own-profile policy without its role and is_active clauses
UsersUpdateCheckOwnRowOnly(uid, new) ==
    \/ uid # NoUser /\ uid = new.id
    \/ IsActiveAdmin(uid)
    \/ IsActiveSuperAdmin(uid)

UsersUpdateCheck(uid, new) ==
    \/ /\ uid # NoUser
       /\ uid = new.id
       /\ new.role = users[uid].role
       /\ new.is_active = users[uid].is_active
    \/ IsActiveAdmin(uid)
    \/ IsActiveSuperAdmin(uid)

UsersUpdateAllowed(uid, old, new) ==
    UsersUpdateUsing(uid, old) /\ UsersUpdateCheck(uid, new)

-----------------------------------------------------------------------------
(* SupabaseService: the queries, as the rows they return *)

\* getConversationMessages, on a given messages table
ConversationMessagesIn(table, uid, conversation_id) ==
    OrderAscending(SelectSeq(table,
        LAMBDA m : m.conversation_id = conversation_id /\ MessagesSelectVisible(uid, m)))

ConversationMessages(uid, conversation_id) ==
    ConversationMessagesIn(messages, uid, conversation_id)

\* getUserDocuments without .eq('uploaded_by', userId)
UserDocumentsOfAnyone(table, uid, userId) ==
    OrderDescending(SelectSeq(table, LAMBDA d : DocumentsSelectVisible(uid, d)))

\* getUserDocuments, on a given documents table
UserDocumentsIn(table, uid, userId) ==
    OrderDescending(SelectSeq(table,
        LAMBDA d : d.uploaded_by = userId /\ DocumentsSelectVisible(uid, d)))

UserDocuments(uid, userId) == UserDocumentsIn(documents, uid, userId)

\* getUserConversations, on a given conversations table
UserConversationsIn(table, uid, userId) ==
    OrderDescending(SelectSeq(table,
        LAMBDA c : c.user_id = userId /\ ConversationsSelectVisible(uid, c)))


\* getCurrentUser: auth.getUser() and getUserProfile(); any error gives null
CurrentUser(authOk, profileOk) ==
    IF session = NoUser \/ ~authOk THEN [user |-> NoUser, profile |-> Null]
    ELSE [user |-> session, profile |-> IF profileOk THEN session ELSE Null]

\* addMessage that stores an empty content
NewMessageWithoutContent(conversation_id, message_type, content) ==
    [id |-> clock, conversation_id |-> conversation_id, message_type |-> message_type,
     content |-> EmptyStr, created_at |-> clock]

\* SupabaseService.addMessage: the row it inserts
NewMessage(conversation_id, message_type, content) ==
    [id |-> clock, conversation_id |-> conversation_id, message_type |-> message_type,
     content |-> content, created_at |-> clock]


-----------------------------------------------------------------------------
(* AIService.generateResponse.  outcome is what the HTTP request does;     *)
(* text is the generated text after the clean up.  httpError is a status   *)
(* that is not OK; badShape is a body that is not a non-empty array;       *)
(* badElement is a non-empty array whose first element is null or whose    *)
(* generated_text is not a string, which makes the clean up throw;         *)
(* throwFetch is a rejected fetch and throwOther a body that is not JSON.  *)

HttpFailures == {"httpError", "badShape", "badElement", "throwFetch", "throwOther"}
GeneratedTexts == {EmptyStr, Lit("answer")}
HttpOutcomes ==
    {[http |-> "ok", text |-> t] : t \in GeneratedTexts}
        \cup {[http |-> h, text |-> EmptyStr] : h \in HttpFailures}

ErrNotConfigured ==
    Lit("AI service not configured. Please check NEXT_PUBLIC_HF_API_TOKEN environment variable in Pxxl.app.")
ErrHttp == Lit("AI service error: ") \o Lit("503") \o Lit(" - ") \o Lit("Unknown error")
ErrFormat == Lit("Unexpected response format from AI service")
ErrFetch == Lit("Network error: Unable to connect to AI service.")
ErrThrown == Lit("AI service error: ") \o Lit("Unexpected token")
ErrElement == Lit("AI service error: ") \o Lit("Cannot read properties of null")
FallbackWithContext ==
    Lit("I apologize, but I'm currently unable to generate an AI response due to a technical issue.")
FallbackNoContext ==
    Lit("I apologize, but I'm currently experiencing technical difficulties connecting to the AI service.")

\* a result that loses the error of a failure
AIResultWithoutError(success, response, error, fallback, fetches) ==
    [success |-> success, response |-> response, error |-> EmptyStr,
     fallback |-> fallback, fetches |-> fetches]

\* the AIResponse a call resolves to, and the requests the call issued
AIResult(success, response, error, fallback, fetches) ==
    [success |-> success, response |-> response, error |-> error,
     fallback |-> fallback, fetches |-> fetches]

\* generateResponse that asks a second time after a request that failed
GenerateResponseRetrying(context, outcome) ==
    IF hfToken = 0 THEN AIResult(FALSE, EmptyStr, ErrNotConfigured, EmptyStr, 0)
    ELSE IF outcome.http = "ok" THEN AIResult(TRUE, outcome.text, EmptyStr, EmptyStr, 1)
    ELSE AIResult(FALSE, EmptyStr, ErrHttp, EmptyStr, 2)

\* AIService.generateResponse
GenerateResponse(context, outcome) ==
    IF hfToken = 0 THEN AIResult(FALSE, EmptyStr, ErrNotConfigured, EmptyStr, 0)
    ELSE CASE outcome.http = "httpError" -> AIResult(FALSE, EmptyStr, ErrHttp, EmptyStr, 1)
           [] outcome.http = "badShape" -> AIResult(FALSE, EmptyStr, ErrFormat, EmptyStr, 1)
           [] outcome.http = "throwFetch" ->
                AIResult(FALSE, EmptyStr, ErrFetch,
                         IF Truthy(context) THEN FallbackWithContext ELSE FallbackNoContext, 1)
           [] outcome.http = "throwOther" ->
                AIResult(FALSE, EmptyStr, ErrThrown,
                         IF Truthy(context) THEN FallbackWithContext ELSE FallbackNoContext, 1)
           [] outcome.http = "badElement" ->
                AIResult(FALSE, EmptyStr, ErrElement,
                         IF Truthy(context) THEN FallbackWithContext ELSE FallbackNoContext, 1)
           [] OTHER -> AIResult(TRUE, outcome.text, EmptyStr, EmptyStr, 1)

\* the content of the assistant message without the guard on success
ResponseOfService(ai) == ai.response

\* conversationAPI.chat: the content of the assistant message
ResponseContent(ai) ==
    IF ai.success
    THEN IF Truthy(ai.response) THEN ai.response
         ELSE Lit("I apologize, but I could not generate a response.")
    ELSE Lit("I apologize, but there was an error: ") \o ai.error

-----------------------------------------------------------------------------
(* conversationAPI.chat: the context it builds *)

RenderMessage(m) == Lit(m.message_type) \o Lit(": ") \o m.content

MessageContext(rows) ==
    Join(Map(SliceLast(rows, RecentMessages), RenderMessage), Lit("\n"))

DocumentContext(docs) ==
    IF Len(docs) > 0 /\ docs[1].extracted_text > 0
    THEN Lit("\n\nDocument Context: ")
         \o Text(ToString(docs[1].id), Min(docs[1].extracted_text, DocContextChars))
         \o Lit("...")
    ELSE EmptyStr

-----------------------------------------------------------------------------
(* Chat page and conversationAPI.chat *)

NoMessage ==
    [id |-> 0, conversation_id |-> NoConv, message_type |-> Null,
     content |-> EmptyStr, created_at |-> 0]

NoConversation ==
    [id |-> NoConv, title |-> Null, user_id |-> Null, created_at |-> 0, message_count |-> -1]

\* chatResponse.conversation: { id: conversationId }
ConversationOfId(id) == [NoConversation EXCEPT !.id = id]

IdleChat ==
    [pc |-> "idle", n |-> 0, conv |-> NoConv, content |-> EmptyStr, context |-> EmptyStr,
     ai |-> AIResult(FALSE, EmptyStr, EmptyStr, EmptyStr, 0), response |-> EmptyStr,
     authed |-> FALSE, before |-> 0, userRow |-> NoMessage, result |-> NoMessage,
     generated |-> 0, writes |-> {}, docUser |-> NoUser, caller |-> "none",
     error |-> ""]

\* how an API call ended: writes are the kinds of write request (storage upload,
\* table insert, table update) it issued, authed whether a user was signed in
\* when it was called
Finished(api, ok, error, authed, writes) ==
    [api |-> api, ok |-> ok, error |-> error, authed |-> authed, writes |-> writes,
     user |-> NoUser, data |-> <<>>]

\* no call has finished since the last one began
Pending == Finished("none", TRUE, "", FALSE, {})

\* a list call that returned data to user
Returned(api, user, data) ==
    [api |-> api, ok |-> TRUE, error |-> "", authed |-> TRUE, writes |-> {},
     user |-> user, data |-> data]

MessageContents == {Lit("hello")}

\* conversationAPI.chat(conversationId, { content }) is called
StartChat(caller, conversationId, content) ==
    /\ chat.pc \in {"idle", "done", "failed"}
    /\ chat.n < MaxChats
    /\ chat' = [IdleChat EXCEPT !.pc = "addUser", !.n = chat.n + 1, !.conv = conversationId,
                                !.content = content, !.authed = (session # NoUser),
                                !.before = Len(messages), !.caller = caller]
    /\ call' = Pending

\* a caller of the API layer calls conversationAPI.chat
CallChat ==
    /\ \E c \in Range(conversations), content \in MessageContents :
        StartChat("api", c.id, content)
    /\ UNCHANGED <<session, users, conversations, messages, documents, clock,
                   convList, current, shown, hfToken, app>>

\* sendMessage up to the call of conversationAPI.chat
SendMessage ==
    /\ current.id # NoConv
    /\ \E content \in MessageContents :
        /\ shown' = Append(shown, [id |-> clock, type |-> "user", content |-> content,
                                   timestamp |-> clock])
        /\ StartChat("page", current.id, content)
    /\ UNCHANGED <<session, users, conversations, messages, documents, clock,
                   convList, current, hfToken, app>>

\* conversationAPI.chat throws; sendMessage's catch removes the last shown message
ChatThrows(error) ==
    /\ chat' = [chat EXCEPT !.pc = "failed", !.writes = @ \cup {"insert"},
                            !.context = EmptyStr, !.docUser = NoUser, !.error = error]
    /\ shown' = IF chat.caller = "page" THEN DropLast(shown) ELSE shown
    /\ call' = Finished("conversationAPI.chat", FALSE, error, chat.authed, {"insert"})
    /\ UNCHANGED <<convList, current>>

\* await supabaseService.addMessage(conversationId, 'user', userMessage)
ChatAddUser ==
    /\ chat.pc = "addUser"
    /\ \E ok \in BOOLEAN :
        LET row == NewMessage(chat.conv, "user", chat.content) IN
        IF ok /\ MessagesInsertAllowed(session, row)
        THEN /\ messages' = Append(messages, row)
             /\ clock' = clock + 1
             /\ chat' = [chat EXCEPT !.pc = "loadMessages", !.userRow = row,
                                  !.writes = {"insert"}]
             /\ UNCHANGED <<shown, call, convList, current>>
        ELSE /\ ChatThrows("insert rejected")
             /\ UNCHANGED <<messages, clock>>
    /\ UNCHANGED <<session, users, conversations, documents, hfToken, app>>

\* the recent messages: a failure leaves the context empty
ChatLoadMessages ==
    /\ chat.pc = "loadMessages"
    /\ \E ok \in BOOLEAN :
        chat' = [chat EXCEPT !.pc = "loadDocuments",
                             !.context = IF ok
                                         THEN MessageContext(ConversationMessages(session, chat.conv))
                                         ELSE EmptyStr]
    /\ UNCHANGED <<session, users, conversations, messages, documents, clock,
                   convList, current, shown, call, hfToken, app>>

\* the first document of the current user: a failure leaves the context as it is
ChatLoadDocuments ==
    /\ chat.pc = "loadDocuments"
    /\ \E authOk \in BOOLEAN, ok \in BOOLEAN :
        LET user == CurrentUser(authOk, TRUE) IN
        chat' = [chat EXCEPT !.pc = "generate", !.docUser = user.user,
                             !.context = IF user.user # NoUser /\ ok
                                         THEN @ \o DocumentContext(UserDocuments(session, user.user))
                                         ELSE @]
    /\ UNCHANGED <<session, users, conversations, messages, documents, clock,
                   convList, current, shown, call, hfToken, app>>

\* const aiResponse = await aiService.generateResponse(userMessage, context)
ChatGenerate ==
    /\ chat.pc = "generate"
    /\ \E outcome \in HttpOutcomes :
        LET ai == GenerateResponse(chat.context, outcome) IN
        chat' = [chat EXCEPT !.pc = "addAssistant", !.ai = ai,
                             !.response = ResponseContent(ai), !.generated = @ + 1]
    /\ UNCHANGED <<session, users, conversations, messages, documents, clock,
                   convList, current, shown, call, hfToken, app>>

\* await supabaseService.addMessage(conversationId, 'assistant', responseContent),
\* the return, and the rest of sendMessage
ChatAddAssistant ==
    /\ chat.pc = "addAssistant"
    /\ \E ok \in BOOLEAN :
        LET row == NewMessage(chat.conv, "assistant", chat.response)
            result == [id |-> row.id, conversation_id |-> chat.conv,
                       message_type |-> "assistant", content |-> chat.response,
                       created_at |-> row.created_at]
        IN
        IF ok /\ MessagesInsertAllowed(session, row)
        THEN /\ messages' = Append(messages, row)
             /\ clock' = clock + 1
             /\ chat' = [chat EXCEPT !.pc = "done", !.result = result,
                                      !.context = EmptyStr, !.docUser = NoUser]
             /\ call' = Finished("conversationAPI.chat", TRUE, "", chat.authed, {"insert"})
             /\ IF chat.caller = "page"
                THEN /\ current' = ConversationOfId(chat.conv)
                     /\ shown' = Append(shown, [id |-> result.id, type |-> "assistant",
                                                content |-> result.content,
                                                timestamp |-> result.created_at])
                     /\ convList' = [i \in 1..Len(convList) |->
                                        IF convList[i].id = chat.conv
                                        THEN ConversationOfId(chat.conv) ELSE convList[i]]
                ELSE UNCHANGED <<current, shown, convList>>
        ELSE /\ ChatThrows("insert rejected")
             /\ UNCHANGED <<messages, clock>>
    /\ UNCHANGED <<session, users, conversations, documents, hfToken, app>>



-----------------------------------------------------------------------------
(* The session of the Supabase client *)

\* SupabaseService.signIn: auth.signInWithPassword succeeded
SignIn ==
    /\ session = NoUser
    /\ \E u \in UserIds : session' = u
    /\ UNCHANGED <<users, conversations, messages, documents, clock,
                   convList, current, shown, chat, call, hfToken, app>>

\* the session ends: auth.signOut succeeded, or the token expired
SessionEnds ==
    /\ session # NoUser
    /\ session' = NoUser
    /\ UNCHANGED <<users, conversations, messages, documents, clock,
                   convList, current, shown, chat, call, hfToken, app>>

-----------------------------------------------------------------------------
(* conversationAPI.create / list / get, documentAPI.list and the pages' handlers *)

\* conversationAPI.list on given tables: the conversations of userId with their
\* message counts; failed holds the conversations whose messages do not load
ListConversationsIn(convTable, msgTable, uid, userId, failed) ==
    Map(UserConversationsIn(convTable, uid, userId),
        LAMBDA c : [id |-> c.id, title |-> c.title, user_id |-> c.user_id,
                    created_at |-> c.created_at,
                    message_count |-> IF c.id \in failed THEN 0
                                      ELSE Len(ConversationMessagesIn(msgTable, uid, c.id))])

ListConversations(userId, failed) ==
    ListConversationsIn(conversations, messages, session, userId, failed)

\* the conversations whose messages fail to load in one list call: none or one
FailedLoads == {{}} \cup {{c.id} : c \in Range(conversations)}

\* conversationAPI.list: how it ends, given how its requests end
ConversationList(how, failed) ==
    LET user == CurrentUser(how # "noUser", TRUE) IN
    IF user.user = NoUser
    THEN Finished("conversationAPI.list", FALSE, "Not authenticated", session # NoUser, {})
    ELSE IF how = "error"
    THEN Finished("conversationAPI.list", FALSE, "select failed", TRUE, {})
    ELSE Returned("conversationAPI.list", user.user, ListConversations(user.user, failed))

\* a caller of the API layer calls conversationAPI.list
CallListConversations ==
    /\ \E how \in {"ok", "noUser", "error"}, failed \in FailedLoads :
        call' = ConversationList(how, failed)
    /\ UNCHANGED <<session, users, conversations, messages, documents, clock,
                   convList, current, shown, chat, hfToken, app>>

\* loadConversations: the chat page lists the conversations; a failure shows a toast
LoadConversations ==
    /\ \E how \in {"ok", "noUser", "error"}, failed \in FailedLoads :
        LET response == ConversationList(how, failed) IN
        convList' = IF response.ok THEN response.data ELSE convList
    /\ UNCHANGED <<session, users, conversations, messages, documents, clock,
                   current, shown, chat, call, hfToken, app>>

\* documentAPI.list and documentAPI.getAvailableForChat
ListDocuments ==
    /\ \E api \in {"documentAPI.list", "documentAPI.getAvailableForChat"},
          how \in {"ok", "noUser", "error"} :
        LET user == CurrentUser(how # "noUser", TRUE) IN
        IF user.user = NoUser
        THEN call' = Finished(api, FALSE, "Not authenticated", session # NoUser, {})
        ELSE IF how = "error"
        THEN call' = Finished(api, FALSE, "select failed", TRUE, {})
        ELSE call' = Returned(api, user.user, UserDocuments(session, user.user))
    /\ UNCHANGED <<session, users, conversations, messages, documents, clock,
                   convList, current, shown, chat, hfToken, app>>

\* conversationAPI.create that stores 'New Conversation' whatever title is given
ConversationCreateUntitled(title, how) ==
    LET user == CurrentUser(how # "noUser", TRUE)
        row == [id |-> clock, title |-> "New Conversation",
                user_id |-> user.user, created_at |-> clock]
    IN
    IF user.user = NoUser
    THEN [call |-> Finished("conversationAPI.create", FALSE, "Not authenticated",
                            session # NoUser, {}),
          row |-> row]
    ELSE IF how = "ok" /\ ConversationsInsertAllowed(session, row)
    THEN [call |-> Finished("conversationAPI.create", TRUE, "", TRUE, {"insert"}), row |-> row]
    ELSE [call |-> Finished("conversationAPI.create", FALSE, "insert rejected", TRUE,
                            {"insert"}),
          row |-> row]

\* conversationAPI.create(data): how it ends and the row it stores
ConversationCreate(title, how) ==
    LET user == CurrentUser(how # "noUser", TRUE)
        row == [id |-> clock, title |-> IF title = Null THEN "New Conversation" ELSE title,
                user_id |-> user.user, created_at |-> clock]
    IN
    IF user.user = NoUser
    THEN [call |-> Finished("conversationAPI.create", FALSE, "Not authenticated",
                            session # NoUser, {}),
          row |-> row]
    ELSE IF how = "ok" /\ ConversationsInsertAllowed(session, row)
    THEN [call |-> Finished("conversationAPI.create", TRUE, "", TRUE, {"insert"}), row |-> row]
    ELSE [call |-> Finished("conversationAPI.create", FALSE, "insert rejected", TRUE,
                            {"insert"}),
          row |-> row]

\* createNewConversation: conversationAPI.create({ title: 'New Chat', ... }); a
\* failure shows a toast
CreateNewConversation ==
    /\ Len(conversations) < MaxConversations
    /\ \E how \in {"ok", "noUser", "error"} :
        LET response == ConversationCreate("New Chat", how)
            newConv == [id |-> response.row.id, title |-> response.row.title,
                        user_id |-> response.row.user_id,
                        created_at |-> response.row.created_at, message_count |-> -1]
        IN
        IF response.call.ok
        THEN /\ conversations' = Append(conversations, response.row)
             /\ clock' = clock + 1
             /\ convList' = <<newConv>> \o convList
             /\ current' = newConv
             /\ shown' = <<>>
        ELSE UNCHANGED <<conversations, clock, convList, current, shown>>
    /\ UNCHANGED <<session, users, messages, documents, chat, call, hfToken, app>>

\* the titles a caller hands to conversationAPI.create; Null is no title
Titles == {Null, "Plans"}

\* a caller of the API layer calls conversationAPI.create; the call's end
\* records the title asked for and the id of the stored row
CallCreateConversation ==
    /\ Len(conversations) < MaxConversations
    /\ \E title \in Titles, how \in {"ok", "noUser", "error"} :
        LET response == ConversationCreate(title, how) IN
        IF response.call.ok
        THEN /\ conversations' = Append(conversations, response.row)
             /\ clock' = clock + 1
             /\ call' = [response.call EXCEPT !.user = response.row.user_id,
                                              !.data = <<[id |-> response.row.id,
                                                          asked |-> title]>>]
        ELSE /\ call' = response.call
             /\ UNCHANGED <<conversations, clock>>
    /\ UNCHANGED <<session, users, messages, documents,
                   convList, current, shown, chat, hfToken, app>>

\* conversationAPI.get
GetConversation(id) == [ok |-> FALSE, error |-> "Get conversation not implemented yet"]

\* selectConversation: when conversationAPI.get throws, the catch shows a toast
\* and the shown messages stay as they are
SelectConversation ==
    /\ \E i \in 1..Len(convList) :
        LET response == GetConversation(convList[i].id) IN
        /\ current' = convList[i]
        /\ shown' = IF response.ok
                    THEN Map(ConversationMessages(session, convList[i].id),
                             LAMBDA m : [id |-> m.id, type |-> m.message_type,
                                         content |-> m.content, timestamp |-> m.created_at])
                    ELSE shown
    /\ UNCHANGED <<session, users, conversations, messages, documents, clock,
                   convList, chat, call, hfToken, app>>

-----------------------------------------------------------------------------
(* The users table: update requests under its row level security policies *)

MaxUpdates == 2

UsersSelectVisible(uid, row) == (uid # NoUser /\ uid = row.id) \/ IsActiveAdmin(uid)

PayloadColumns == {"full_name", "department", "job_title", "is_active"}

\* the updates a client asks for, as the columns they set
Patches ==
    {[role |-> r] : r \in Roles}
    \cup {[is_active |-> b] : b \in BOOLEAN}
    \cup {[full_name |-> "other"], [full_name |-> "name"], [department |-> "other"],
          [job_title |-> "other"],
          [full_name |-> "other", department |-> "other", job_title |-> "other"],
          [full_name |-> "other", role |-> "admin"],
          [full_name |-> "other", is_active |-> FALSE]}

\* the data objects handed to userAPI.updateProfile
ProfileData ==
    {p \in Patches : DOMAIN p \cap PayloadColumns # {}}
    \cup {[full_name |-> "other", role |-> "super_admin", email |-> "other"],
          [is_active |-> TRUE, email |-> "other"]}

\* updateUserProfile: the columns of data it sends (undefined ones are left out)
Payload(data) == [c \in DOMAIN data \cap PayloadColumns |-> data[c]]

\* the row after an update that sets the columns of patch
Apply(row, patch) ==
    [id |-> row.id,
     role |-> IF "role" \in DOMAIN patch THEN patch["role"] ELSE row.role,
     is_active |-> IF "is_active" \in DOMAIN patch THEN patch["is_active"] ELSE row.is_active,
     full_name |-> IF "full_name" \in DOMAIN patch THEN patch["full_name"] ELSE row.full_name,
     department |-> IF "department" \in DOMAIN patch THEN patch["department"]
                    ELSE row.department,
     job_title |-> IF "job_title" \in DOMAIN patch THEN patch["job_title"] ELSE row.job_title]

NoRow ==
    [id |-> NoUser, role |-> Null, is_active |-> FALSE, full_name |-> Null,
     department |-> Null, job_title |-> Null]

RoleOf(uid) == IF uid \in UserIds THEN users[uid].role ELSE Null

\* how a call that touches the users table ended: actor is the signed-in user
\* of the request, before the target row as it was, after the row asked for
UsersCall(api, n, sent, actor, target, columns, before, after, ok) ==
    [api |-> api, n |-> n, sent |-> sent, actor |-> actor, actorRole |-> RoleOf(actor),
     target |-> target, columns |-> columns, before |-> before, after |-> after, ok |-> ok]

NoUsersCall == UsersCall("none", 0, FALSE, NoUser, NoUser, {}, NoRow, NoRow, FALSE)

\* supabase.from('users').update(patch).eq('id', target) with the session of
\* the client: the policies decide; a rejected update changes nothing
UpdateRequest(api, target, patch) ==
    LET before == users[target]
        after == Apply(before, patch)
        ok == UsersUpdateAllowed(session, before, after)
    IN
    /\ users' = IF ok THEN [users EXCEPT ![target] = after] ELSE users
    /\ call' = UsersCall(api, call.n + 1, TRUE, session, target, DOMAIN patch,
                         before, after, ok)

\* userAPI.updateProfile(data)
UpdateProfile ==
    /\ call.n < MaxUpdates
    /\ \E data \in ProfileData, authOk \in BOOLEAN :
        LET user == CurrentUser(authOk, TRUE) IN
        IF user.user = NoUser
        THEN /\ call' = UsersCall("userAPI.updateProfile", call.n + 1, FALSE, session,
                                  NoUser, {}, NoRow, NoRow, FALSE)
             /\ users' = users
        ELSE UpdateRequest("userAPI.updateProfile", user.user, Payload(data))
    /\ UNCHANGED <<session, conversations, messages, documents, clock,
                   convList, current, shown, chat, hfToken, app>>

\* an update of a users row sent with the Supabase client of the browser
UpdateUsersRow ==
    /\ call.n < MaxUpdates
    /\ \E target \in UserIds, patch \in Patches : UpdateRequest("users.update", target, patch)
    /\ UNCHANGED <<session, conversations, messages, documents, clock,
                   convList, current, shown, chat, hfToken, app>>

\* adminAPI.toggleUserActive(id): reads is_active, then writes its negation
ToggleUserActive ==
    /\ call.n < MaxUpdates
    /\ \E target \in UserIds :
        IF UsersSelectVisible(session, users[target])
        THEN UpdateRequest("adminAPI.toggleUserActive", target,
                           [is_active |-> ~users[target].is_active])
        ELSE /\ call' = UsersCall("adminAPI.toggleUserActive", call.n + 1, FALSE, session,
                                  target, {}, NoRow, NoRow, FALSE)
             /\ users' = users
    /\ UNCHANGED <<session, conversations, messages, documents, clock,
                   convList, current, shown, chat, hfToken, app>>

-----------------------------------------------------------------------------
(* documentAPI.upload and conversationAPI.uploadDocument *)

MaxDocuments == 2

DocumentsInsertAllowed(uid, row) == uid # NoUser /\ uid = row.uploaded_by
DocumentsUpdateAllowed(uid, row) == uid # NoUser /\ uid = row.uploaded_by

\* storage.objects: (storage.foldername(name))[1] is the first folder of the
\* object's path, NULL for a path without a folder
NoFolder == "null"
StorageInsertAllowed(uid, folder) ==
    \/ uid # NoUser /\ folder # NoFolder /\ uid = folder
    \/ IsActiveAdmin(uid)

\* uploadFile names the object `${Date.now()}-${random}.${ext}`: no folder
UploadFolder == NoFolder

PdfPlaceholderChars == 78

\* the files a user picks: a text file of chars characters, or a PDF
Files ==
    {[type |-> "text/plain", chars |-> 0], [type |-> "text/plain", chars |-> 400],
     [type |-> "application/pdf", chars |-> 1000]}

\* extractTextFromFile: the length of the text it resolves to
ExtractTextFromFile(file) ==
    IF file.type = "text/plain" THEN file.chars ELSE PdfPlaceholderChars

ErrEmbedNotConfigured == Lit("AI service not configured. Please check API token.")

\* AIService.generateEmbeddings: outcome is what the HTTP request does
GenerateEmbeddings(outcome) ==
    IF hfToken = 0
    THEN [success |-> FALSE, fetches |-> 0, error |-> ErrEmbedNotConfigured]
    ELSE IF outcome = "ok" THEN [success |-> TRUE, fetches |-> 1, error |-> EmptyStr]
    ELSE [success |-> FALSE, fetches |-> 1,
          error |-> IF outcome = "httpError" THEN Lit("Embedding service error: ") \o Lit("503")
                    ELSE Lit("Embedding error: ") \o Lit("Failed to fetch")]

\* the ways one upload can go: every request answers well, or one does not
UploadOutcomes ==
    {"ok", "noUser", "noProfile", "storageFails", "insertFails", "readFails",
     "embedHttpError", "embedThrows", "updateFails"}

\* how an upload call ended; data holds the id of the document it reports
Uploaded(api, authed, writes, id) ==
    [api |-> api, ok |-> TRUE, error |-> "", authed |-> authed, writes |-> writes,
     user |-> NoUser, data |-> <<id>>]

\* the rest of both upload operations, from supabaseService.uploadFile on, for
\* the user id they pass: the call's end and the documents table after it
UploadAndProcess(api, file, userId, how) ==
    LET row == [id |-> clock, uploaded_by |-> userId, extracted_text |-> NoText,
                embedding |-> FALSE, created_at |-> clock]
        text == ExtractTextFromFile(file)
        embedded == GenerateEmbeddings(IF how = "embedHttpError" THEN "httpError"
                                       ELSE IF how = "embedThrows" THEN "throw" ELSE "ok")
        authed == session # NoUser
    IN
    IF how = "storageFails" \/ ~StorageInsertAllowed(session, UploadFolder)
    THEN [call |-> Finished(api, FALSE, "upload rejected", authed, {"upload"}),
          documents |-> documents]
    ELSE IF how = "insertFails" \/ ~DocumentsInsertAllowed(session, row)
    THEN [call |-> Finished(api, FALSE, "insert rejected", authed, {"upload", "insert"}),
          documents |-> documents]
    ELSE IF how = "readFails"
    THEN [call |-> Finished(api, FALSE, "Failed to read file", authed, {"upload", "insert"}),
          documents |-> Append(documents, row)]
    ELSE IF ~embedded.success
    THEN [call |-> Uploaded(api, authed, {"upload", "insert"}, row.id),
          documents |-> Append(documents, row)]
    ELSE IF how = "updateFails" \/ ~DocumentsUpdateAllowed(session, row)
    THEN [call |-> Finished(api, FALSE, "update rejected", authed,
                            {"upload", "insert", "update"}),
          documents |-> Append(documents, row)]
    ELSE [call |-> Uploaded(api, authed, {"upload", "insert", "update"}, row.id),
          documents |-> Append(documents, [row EXCEPT !.extracted_text = text,
                                                       !.embedding = TRUE])]

\* documentAPI.upload(formData, projectId)
DocumentUpload(file, how) ==
    LET user == CurrentUser(how # "noUser", how # "noProfile") IN
    IF user.user = NoUser \/ user.profile = Null
    THEN [call |-> Finished("documentAPI.upload", FALSE, "Not authenticated",
                            session # NoUser, {}),
          documents |-> documents]
    ELSE UploadAndProcess("documentAPI.upload", file, user.user, how)

\* conversationAPI.uploadDocument(conversationId, formData, userId, userEmail):
\* given is the userId handed over with an email, NoUser when none is
UploadDocument(file, given, how) ==
    LET user == CurrentUser(how # "noUser", how # "noProfile") IN
    IF given # NoUser
    THEN UploadAndProcess("conversationAPI.uploadDocument", file, given, how)
    ELSE IF user.user = NoUser \/ user.profile = Null
    THEN [call |-> Finished("conversationAPI.uploadDocument", FALSE, "Not authenticated",
                            session # NoUser, {}),
          documents |-> documents]
    ELSE UploadAndProcess("conversationAPI.uploadDocument", file, user.user, how)

\* a caller of the API layer calls documentAPI.upload
CallDocumentUpload ==
    /\ Len(documents) < MaxDocuments
    /\ \E file \in Files, how \in UploadOutcomes :
        LET end == DocumentUpload(file, how) IN
        /\ call' = end.call
        /\ documents' = end.documents
        /\ clock' = IF end.documents # documents THEN clock + 1 ELSE clock
    /\ UNCHANGED <<session, users, conversations, messages,
                   convList, current, shown, chat, hfToken, app>>

\* a caller of the API layer calls conversationAPI.uploadDocument
CallUploadDocument ==
    /\ Len(documents) < MaxDocuments
    /\ \E file \in Files, given \in UserIds \cup {NoUser}, how \in UploadOutcomes :
        LET end == UploadDocument(file, given, how) IN
        /\ call' = end.call
        /\ documents' = end.documents
        /\ clock' = IF end.documents # documents THEN clock + 1 ELSE clock
    /\ UNCHANGED <<session, users, conversations, messages,
                   convList, current, shown, chat, hfToken, app>>

-----------------------------------------------------------------------------
(* The app shell: the user held by _app.tsx, localStorage, the route, the    *)
(* login page, Layout and the user-management page                           *)

NoAppUser == [user |-> NoUser, role |-> Null, is_active |-> Null, full_name |-> Null]

\* a localStorage 'user' entry that JSON.parse does not accept
Unparsable == [user |-> "unparsable", role |-> Null, is_active |-> Null, full_name |-> Null]

\* the account types of the login form
AccountTypes == {"super_admin", "admin", "user", "guest"}

\* the state of the upload page: files, projects, selectedProject, isUploading;
\* queue holds the files the loop of uploadAllFiles has still to upload
NoUploadPage ==
    [files |-> <<>>, projects |-> <<>>, selectedProject |-> Null, isUploading |-> FALSE,
     queue |-> <<>>, toast |-> "none"]

AdminPage == "/admin/users"

\* the documents page as it mounts; returned is what documentAPI.list answered
\* to its latest load that did not throw
NoDocumentsPage ==
    [documents |-> <<>>, total |-> 0, totalPages |-> 1, page |-> 1, searchQuery |-> "",
     selectedProject |-> Null, toast |-> "none", loaded |-> FALSE, returned |-> <<>>]

\* user: the state of _app.tsx; stored and token: localStorage 'user' and
\* 'access_token'; push: the route of a router.push that has not finished;
\* signOut: the request of supabase.auth.signOut; requests: the roles of the
\* app user at each call of loadUsers; userList: the rows the page lists;
\* payload: the columns of the last update the edit form handed over;
\* accountType: the account type selected on the login form
NoApp ==
    [user |-> NoAppUser, stored |-> NoAppUser, token |-> FALSE, route |-> "/login",
     push |-> Null, toast |-> "none", signOut |-> "none", requests |-> {},
     userList |-> {}, payload |-> {}, upload |-> NoUploadPage, docs |-> NoDocumentsPage,
     accountType |-> "user"]

\* handleUserChange that leaves localStorage alone
HandleUserChangeInMemory(a, newUser) == [a EXCEPT !.user = newUser]

\* handleUserChange of _app.tsx
HandleUserChange(a, newUser) ==
    IF newUser.user # NoUser
    THEN [a EXCEPT !.user = newUser, !.stored = newUser]
    ELSE [a EXCEPT !.user = newUser, !.stored = NoAppUser, !.token = FALSE]

\* Layout: const isAdmin
IsAdmin(user) == user.role = "admin" \/ user.role = "super_admin"

\* Layout renders the Administration entries
AdminNavShown == app.route # "/login" /\ app.user.user # NoUser /\ IsAdmin(app.user)

VisibleUsers(uid) == {u \in UserIds : UsersSelectVisible(uid, users[u])}

\* loadUsers of the user-management page: adminAPI.getUsers
LoadUsers(a, ok) ==
    IF ok
    THEN [a EXCEPT !.requests = @ \cup {a.user.role}, !.userList = VisibleUsers(session)]
    ELSE [a EXCEPT !.requests = @ \cup {a.user.role}, !.toast = "Failed to load users"]

\* loadUsers for every signed-in user, whatever the role
AdminPageEffectForAnyUser(a, ok) ==
    IF a.user.user = NoUser THEN [a EXCEPT !.push = "/login"] ELSE LoadUsers(a, ok)

\* the useEffect of the user-management page
AdminPageEffect(a, ok) ==
    IF a.user.user = NoUser THEN [a EXCEPT !.push = "/login"]
    ELSE IF a.user.role # "admin" /\ a.user.role # "super_admin"
    THEN [a EXCEPT !.push = "/dashboard"]
    ELSE LoadUsers(a, ok)

\* EditUserModal.handleSubmit: the columns of updateData
EditUserPayload(currentUserRole) ==
    {"full_name", "department", "job_title", "is_active"}
    \cup (IF currentUserRole = "super_admin" THEN {"role"} ELSE {})

\* authAPI.login that gives the account the role selected on the form
AuthLoginOfAccountType(u, accountType, profileOk) ==
    [access_token |-> TRUE,
     user |-> [user |-> u, role |-> accountType,
               is_active |-> IF profileOk THEN users[u].is_active ELSE Null,
               full_name |-> IF profileOk THEN users[u].full_name ELSE Null]]

\* authAPI.login for the credentials of account u, once signInWithPassword
\* accepted them: response.data.  The profile is null when it does not load
AuthLogin(u, accountType, profileOk) ==
    [access_token |-> TRUE,
     user |-> [user |-> u,
               role |-> IF profileOk THEN users[u].role ELSE Null,
               is_active |-> IF profileOk THEN users[u].is_active ELSE Null,
               full_name |-> IF profileOk THEN users[u].full_name ELSE Null]]

\* the login page: handleSubmit with authAPI.login
Login ==
    /\ app.route = "/login"
    /\ \E u \in UserIds, accountType \in AccountTypes, ok \in BOOLEAN, profileOk \in BOOLEAN :
        IF ok
        THEN LET data == AuthLogin(u, accountType, profileOk) IN
             /\ session' = u
             /\ app' = [HandleUserChange([app EXCEPT !.token = data.access_token], data.user)
                          EXCEPT !.toast = "Welcome back", !.push = "/dashboard",
                                 !.accountType = accountType]
        ELSE /\ session' = session
             /\ app' = [app EXCEPT !.toast = "Login failed", !.accountType = accountType]
    /\ UNCHANGED <<users, conversations, messages, documents, clock,
                   convList, current, shown, chat, call, hfToken>>

\* Layout.handleLogout: authAPI.logout() is called and not awaited
HandleLogout ==
    /\ app.user.user # NoUser
    /\ app.route # "/login"
    /\ app' = [HandleUserChange(app, NoAppUser)
                  EXCEPT !.signOut = "pending", !.push = "/login",
                         !.toast = "Logged out successfully"]
    /\ UNCHANGED <<session, users, conversations, messages, documents, clock,
                   convList, current, shown, chat, call, hfToken>>

\* SupabaseService.signOut ends: an error is thrown into a promise nobody awaits
SignOutEnds ==
    /\ app.signOut = "pending"
    /\ \E ok \in BOOLEAN :
        /\ session' = IF ok THEN NoUser ELSE session
        /\ app' = [app EXCEPT !.signOut = IF ok THEN "done" ELSE "failed"]
    /\ UNCHANGED <<users, conversations, messages, documents, clock,
                   convList, current, shown, chat, call, hfToken>>

\* a router.push finishes
FollowPush ==
    /\ app.push # Null
    /\ app' = [app EXCEPT !.route = app.push, !.push = Null,
                          !.userList = IF app.push = AdminPage THEN @ ELSE {}]
    /\ UNCHANGED <<session, users, conversations, messages, documents, clock,
                   convList, current, shown, chat, call, hfToken>>

\* the user-management page is opened
OpenAdminPage ==
    /\ app.route # AdminPage
    /\ \E ok \in BOOLEAN :
        app' = AdminPageEffect([app EXCEPT !.route = AdminPage, !.push = Null,
                                           !.userList = {}], ok)
    /\ UNCHANGED <<session, users, conversations, messages, documents, clock,
                   convList, current, shown, chat, call, hfToken>>

\* the page is loaded again: the useEffect of _app.tsx reads localStorage
AppStart ==
    /\ \E ok \in BOOLEAN :
        LET found == app.token /\ app.stored.user # NoUser
            thrown == found /\ app.stored = Unparsable
            started == [app EXCEPT !.user = IF found /\ ~thrown THEN app.stored
                                            ELSE NoAppUser,
                                   !.stored = IF thrown THEN NoAppUser ELSE @,
                                   !.token = IF thrown THEN FALSE ELSE @,
                                   !.push = Null, !.toast = "none", !.userList = {},
                                   !.accountType = "user"]
        IN app' = IF app.route = AdminPage THEN AdminPageEffect(started, ok) ELSE started
    /\ UNCHANGED <<session, users, conversations, messages, documents, clock,
                   convList, current, shown, chat, call, hfToken>>

\* a row of the list is on the screen of a signed-in user
Listed(target) ==
    /\ app.route = AdminPage
    /\ app.user.user # NoUser
    /\ target \in app.userList

\* handleToggleUserActive: adminAPI.toggleUserActive, then loadUsers
HandleToggleUserActive ==
    /\ \E target \in UserIds, ok \in BOOLEAN :
        /\ Listed(target)
        /\ LET before == users[target]
               after == [before EXCEPT !.is_active = ~before.is_active]
           IN
           IF /\ UsersSelectVisible(session, before)
              /\ UsersUpdateAllowed(session, before, after)
           THEN /\ users' = [users EXCEPT ![target] = after]
                /\ app' = LoadUsers([app EXCEPT !.toast = "User status changed"], ok)
           ELSE /\ users' = users
                /\ app' = [app EXCEPT !.toast = "Failed to toggle user status"]
    /\ UNCHANGED <<session, conversations, messages, documents, clock,
                   convList, current, shown, chat, call, hfToken>>

\* handleDeleteUser: adminAPI.deleteUser throws
HandleDeleteUser ==
    /\ \E target \in UserIds : Listed(target)
    /\ app' = [app EXCEPT !.toast = "Failed to delete user"]
    /\ UNCHANGED <<session, users, conversations, messages, documents, clock,
                   convList, current, shown, chat, call, hfToken>>

\* EditUserModal.handleSubmit: adminAPI.updateUser throws
SubmitEditUser ==
    /\ \E target \in UserIds : Listed(target)
    /\ app' = [app EXCEPT !.payload = EditUserPayload(app.user.role),
                          !.toast = "Failed to update user"]
    /\ UNCHANGED <<session, users, conversations, messages, documents, clock,
                   convList, current, shown, chat, call, hfToken>>

-----------------------------------------------------------------------------
(* The upload page *)

MaxFiles == 2

\* projectAPI.list: projects are not implemented, the list is empty
ProjectList == <<>>

\* loadProjects of the upload page: the first project, if any, is selected
LoadProjects ==
    /\ app' = [app EXCEPT !.upload.projects = ProjectList,
                          !.upload.selectedProject =
                              IF Len(ProjectList) > 0 THEN ProjectList[1].id ELSE @]
    /\ UNCHANGED <<session, users, conversations, messages, documents, clock,
                   convList, current, shown, chat, call, hfToken>>

\* the project select: 'Choose a project...' or one of the listed projects
SelectProject ==
    /\ \E value \in {Null} \cup {app.upload.projects[i].id : i \in 1..Len(app.upload.projects)} :
        app' = [app EXCEPT !.upload.selectedProject = value]
    /\ UNCHANGED <<session, users, conversations, messages, documents, clock,
                   convList, current, shown, chat, call, hfToken>>

\* onDrop: the dropped file is listed as pending
OnDrop ==
    /\ Len(app.upload.files) < MaxFiles
    /\ \E file \in Files :
        app' = [app EXCEPT !.upload.files =
                    Append(@, [file |-> file, status |-> "pending", handled |-> FALSE])]
    /\ UNCHANGED <<session, users, conversations, messages, documents, clock,
                   convList, current, shown, chat, call, hfToken>>

\* uploadFile(fileItem), called by the Upload button of a pending file or by
\* the loop of uploadAllFiles for the next file of its queue; handled records
\* that a call for the file has ended
UploadFile ==
    /\ \E i \in 1..Len(app.upload.files), how \in UploadOutcomes :
        LET up == app.upload
            queued == up.queue # <<>> /\ up.queue[1] = i
            rest == IF queued THEN Tail(up.queue) ELSE up.queue
            end == DocumentUpload(up.files[i].file, how)
        IN
        /\ up.files[i].status = "pending"
        /\ IF up.selectedProject = Null
           THEN /\ app' = [app EXCEPT !.upload.files[i].handled = TRUE,
                                      !.upload.queue = rest,
                                      !.upload.isUploading = @ /\ rest # <<>>,
                                      !.upload.toast = "Please select a project first"]
                /\ UNCHANGED <<documents, clock, call>>
           ELSE /\ Len(documents) < MaxDocuments
                /\ app' = [app EXCEPT !.upload.files[i].handled = TRUE,
                                      !.upload.files[i].status =
                                          IF end.call.ok THEN "completed" ELSE "failed",
                                      !.upload.queue = rest,
                                      !.upload.isUploading = @ /\ rest # <<>>,
                                      !.upload.toast =
                                          IF end.call.ok THEN "uploaded successfully"
                                          ELSE "Failed to upload"]
                /\ call' = end.call
                /\ documents' = end.documents
                /\ clock' = IF end.documents # documents THEN clock + 1 ELSE clock
    /\ UNCHANGED <<session, users, conversations, messages,
                   convList, current, shown, chat, hfToken>>

\* the indices of the files that are pending
PendingFiles(files) ==
    LET F[i \in 0..Len(files)] ==
            IF i = 0 THEN <<>>
            ELSE IF files[i].status = "pending" THEN Append(F[i - 1], i) ELSE F[i - 1]
    IN F[Len(files)]

\* uploadAllFiles: without a project it only shows a toast; with one it
\* uploads the pending files one after the other
UploadAllFiles ==
    /\ PendingFiles(app.upload.files) # <<>>
    /\ ~app.upload.isUploading
    /\ IF app.upload.selectedProject = Null
       THEN app' = [app EXCEPT !.upload.toast = "Please select a project first",
                               !.upload.files =
                                   [i \in 1..Len(@) |->
                                       IF @[i].status = "pending"
                                       THEN [@[i] EXCEPT !.handled = TRUE] ELSE @[i]]]
       ELSE app' = [app EXCEPT !.upload.isUploading = TRUE,
                               !.upload.queue = PendingFiles(app.upload.files)]
    /\ UNCHANGED <<session, users, conversations, messages, documents, clock,
                   convList, current, shown, chat, call, hfToken>>

-----------------------------------------------------------------------------
(* The documents page *)

PerPage == 20
Undefined == Null
SearchQueries == {"", "report", "plan"}

Max(a, b) == IF a > b THEN a ELSE b
Ceil(a, b) == (a + b - 1) \div b

\* data.documents, data.data and data.total of the array documentAPI.list
\* answers with: an array has none of these properties
ArrayProperty(array, name) == IF name = "length" THEN Len(array) ELSE Undefined

\* value || other
OrElse(value, other) == IF value = Undefined THEN other ELSE value

\* documentAPI.list: what it resolves to, or that it throws
DocumentList(how) ==
    LET user == CurrentUser(how # "noUser", TRUE) IN
    IF user.user = NoUser THEN [ok |-> FALSE, error |-> "Not authenticated", data |-> <<>>]
    ELSE IF how = "error" THEN [ok |-> FALSE, error |-> "select failed", data |-> <<>>]
    ELSE [ok |-> TRUE, error |-> "", data |-> UserDocuments(session, user.user)]

\* loadDocuments, on the state d of the page
LoadDocuments(d, how) ==
    LET response == DocumentList(how)
        data == response.data
        total == OrElse(ArrayProperty(data, "total"), 0)
    IN IF response.ok
       THEN [d EXCEPT !.documents = OrElse(ArrayProperty(data, "documents"),
                                           OrElse(ArrayProperty(data, "data"), <<>>)),
                      !.total = total,
                      !.totalPages = Ceil(total, PerPage),
                      !.loaded = TRUE, !.returned = data, !.toast = "none"]
       ELSE [d EXCEPT !.toast = "Failed to load documents"]

\* the page mounts, or handleDelete reloads: the effect runs loadDocuments
MountDocumentsPage ==
    /\ \E how \in {"ok", "noUser", "error"} :
        app' = [app EXCEPT !.docs = LoadDocuments(app.docs, how)]
    /\ UNCHANGED <<session, users, conversations, messages, documents, clock,
                   convList, current, shown, chat, call, hfToken>>

\* the search box changes: setSearchQuery, setPage(1), and the effect
ChangeSearchQuery ==
    /\ \E q \in SearchQueries \ {app.docs.searchQuery}, how \in {"ok", "noUser", "error"} :
        app' = [app EXCEPT !.docs =
                    LoadDocuments([app.docs EXCEPT !.searchQuery = q, !.page = 1], how)]
    /\ UNCHANGED <<session, users, conversations, messages, documents, clock,
                   convList, current, shown, chat, call, hfToken>>

\* the project filter: its options are All Projects and the projects loaded,
\* and projectAPI.list answers with none; setSelectedProject, setPage(1), and
\* the effect when one of its dependencies changed
ChangeProjectFilter ==
    /\ \E value \in {Null} \cup Range(ProjectList), how \in {"ok", "noUser", "error"} :
        LET d == [app.docs EXCEPT !.selectedProject = value, !.page = 1] IN
        app' = [app EXCEPT !.docs = IF d = app.docs THEN d ELSE LoadDocuments(d, how)]
    /\ UNCHANGED <<session, users, conversations, messages, documents, clock,
                   convList, current, shown, chat, call, hfToken>>

\* the pagination is rendered only with documents on more than one page
PaginationShown(d) == Len(d.documents) > 0 /\ d.totalPages > 1

\* Previous: setPage(Math.max(1, page - 1)), and the effect
PreviousPage ==
    /\ PaginationShown(app.docs)
    /\ app.docs.page # 1
    /\ \E how \in {"ok", "noUser", "error"} :
        app' = [app EXCEPT !.docs =
                    LoadDocuments([app.docs EXCEPT !.page = Max(1, @ - 1)], how)]
    /\ UNCHANGED <<session, users, conversations, messages, documents, clock,
                   convList, current, shown, chat, call, hfToken>>

\* Next: setPage(Math.min(totalPages, page + 1)), and the effect
FollowingPage ==
    /\ PaginationShown(app.docs)
    /\ app.docs.page # app.docs.totalPages
    /\ \E how \in {"ok", "noUser", "error"} :
        app' = [app EXCEPT !.docs =
                    LoadDocuments([app.docs EXCEPT !.page = Min(app.docs.totalPages, @ + 1)], how)]
    /\ UNCHANGED <<session, users, conversations, messages, documents, clock,
                   convList, current, shown, chat, call, hfToken>>

-----------------------------------------------------------------------------
(* AIService without the chat around it: the clean up of the generated text, *)
(* isAvailable and getStatus, where a text is a string of one-character      *)
(* chunks; and the health endpoint.                                          *)

MaxPieces == 3
MinTokenLength == 10

RECURSIVE Chars(_)
Chars(cs) == IF cs = <<>> THEN EmptyStr ELSE Lit(Head(cs)) \o Chars(Tail(cs))

ArtifactBOS == Chars(<<"<", "s", ">">>)
ArtifactEOS == Chars(<<"<", "/", "s", ">">>)
ArtifactInst == Chars(<<"[", "I", "N", "S", "T", "]">>)
ArtifactEndInst == Chars(<<"[", "/", "I", "N", "S", "T", "]">>)
Artifacts == {ArtifactBOS, ArtifactEOS, ArtifactInst, ArtifactEndInst}

IsWhitespace(chunk) == chunk.s \in {" ", "\n"}

\* String.prototype.indexOf, from 1; 0 when pattern does not occur
IndexOf(str, pattern) ==
    LET at == {i \in 1..(Len(str) - Len(pattern) + 1) :
                   SubSeq(str, i, i + Len(pattern) - 1) = pattern}
    IN IF at = {} THEN 0 ELSE CHOOSE i \in at : \A j \in at : i <= j

Includes(str, pattern) == IndexOf(str, pattern) # 0

\* str.split(separator)[1], for a str that includes separator
SplitSecond(str, separator) ==
    LET first == IndexOf(str, separator)
        rest == SubSeq(str, first + Len(separator), Len(str))
        next == IndexOf(rest, separator)
    IN IF next = 0 THEN rest ELSE SubSeq(rest, 1, next - 1)

\* String.prototype.trim
Trim(str) ==
    LET kept == {i \in 1..Len(str) : ~IsWhitespace(str[i])}
    IN IF kept = {} THEN EmptyStr
       ELSE SubSeq(str, CHOOSE i \in kept : \A j \in kept : i <= j,
                        CHOOSE i \in kept : \A j \in kept : i >= j)

\* str.replace(/<s>|<\/s>|\[INST\]|\[\/INST\]/g, ''): one pass from the left
RECURSIVE RemoveArtifacts(_)
RemoveArtifacts(str) ==
    IF str = EmptyStr THEN EmptyStr
    ELSE LET found == {a \in Artifacts : Len(a) <= Len(str) /\ SubSeq(str, 1, Len(a)) = a}
         IN IF found = {} THEN <<Head(str)>> \o RemoveArtifacts(Tail(str))
            ELSE LET a == CHOOSE a \in found : TRUE
                 IN RemoveArtifacts(SubSeq(str, Len(a) + 1, Len(str)))

\* generateResponse: the response it makes of data[0].generated_text
CleanUp(generated_text) ==
    LET answer == IF Includes(generated_text, ArtifactEndInst)
                  THEN Trim(SplitSecond(generated_text, ArtifactEndInst))
                  ELSE generated_text
    IN Trim(RemoveArtifacts(answer))

\* the generated texts tried: up to MaxPieces pieces, among them the halves
\* of an artifact
Pieces ==
    {ArtifactBOS, ArtifactEOS, ArtifactInst, ArtifactEndInst,
     Chars(<<" ">>), Chars(<<"a">>), Chars(<<"<">>), Chars(<<"s", ">">>)}

RECURSIVE TextsOf(_)
TextsOf(n) ==
    IF n = 0 THEN {EmptyStr}
    ELSE LET shorter == TextsOf(n - 1)
         IN shorter \cup {t \o p : t \in shorter, p \in Pieces}

RawTexts == TextsOf(MaxPieces)
Contexts == {EmptyStr, Lit("user: hello")}
TokenLengths == {0, MinTokenLength, MinTokenLength + 1}

\* what the HTTP request of generateResponse can do when the model generated raw
ServiceOutcomes(raw) ==
    {[http |-> "ok", text |-> CleanUp(raw)]}
        \cup {[http |-> h, text |-> EmptyStr] : h \in HttpFailures}

\* AIService.isAvailable
IsAvailable(outcome) ==
    IF hfToken = 0 THEN [value |-> FALSE, fetches |-> 0]
    ELSE LET response == GenerateResponse(EmptyStr, outcome)
         IN [value |-> response.success, fetches |-> response.fetches]

\* getStatus that takes any token for a configured one
GetStatusAnyToken ==
    [configured |-> hfToken # 0, tokenPresent |-> hfToken # 0,
     message |-> Lit("AI service appears to be configured correctly.")]

\* AIService.getStatus
GetStatus ==
    LET tokenPresent == hfToken # 0
        configured == tokenPresent /\ hfToken > MinTokenLength
    IN [configured |-> configured, tokenPresent |-> tokenPresent,
        message |->
            IF ~tokenPresent THEN Lit("Hugging Face API token not found.")
            ELSE IF ~configured
                 THEN Lit("Hugging Face API token appears to be invalid or too short.")
                 ELSE Lit("AI service appears to be configured correctly.")]

\* a call of the service: what it was given and what it resolved to
ServiceCall(api, context, http, result) ==
    [api |-> api, raw |-> call.raw, context |-> context, http |-> http, result |-> result]

NoServiceCall(raw) ==
    [api |-> "none", raw |-> raw, context |-> EmptyStr, http |-> "none", result |-> Null]

CallGenerateResponse ==
    /\ \E context \in Contexts, outcome \in ServiceOutcomes(call.raw) :
           call' = ServiceCall("generateResponse", context, outcome.http,
                               GenerateResponse(context, outcome))
    /\ UNCHANGED <<session, users, conversations, messages, documents, clock,
                   convList, current, shown, chat, hfToken, app>>

CallGenerateEmbeddings ==
    /\ \E outcome \in {"ok", "httpError", "throws"} :
           call' = ServiceCall("generateEmbeddings", EmptyStr, outcome,
                               GenerateEmbeddings(outcome))
    /\ UNCHANGED <<session, users, conversations, messages, documents, clock,
                   convList, current, shown, chat, hfToken, app>>

CallIsAvailable ==
    /\ \E outcome \in ServiceOutcomes(call.raw) :
           call' = ServiceCall("isAvailable", EmptyStr, outcome.http, IsAvailable(outcome))
    /\ UNCHANGED <<session, users, conversations, messages, documents, clock,
                   convList, current, shown, chat, hfToken, app>>

CallGetStatus ==
    /\ call' = ServiceCall("getStatus", EmptyStr, "none", GetStatus)
    /\ UNCHANGED <<session, users, conversations, messages, documents, clock,
                   convList, current, shown, chat, hfToken, app>>

\* pages/api/health.ts.  An environment variable is Null when it is not set
Methods == {"GET", "HEAD", "POST", "PUT", "PATCH", "DELETE", "OPTIONS"}
EnvValues == {Null, "", "value"}
Environments ==
    [NEXT_PUBLIC_SUPABASE_URL : EnvValues, NEXT_PUBLIC_HF_API_TOKEN : EnvValues,
     NODE_ENV : {Null, "production"}, NEXT_PUBLIC_APP_NAME : {Null, "value"}]
EnvTruthy(v) == v # Null /\ v # ""

\* a health endpoint that reports a missing configuration as a failure
HandlerStrict(method, env) ==
    IF method # "GET" THEN [status |-> 405, body |-> [error |-> "Method not allowed"]]
    ELSE IF EnvTruthy(env.NEXT_PUBLIC_SUPABASE_URL) /\ EnvTruthy(env.NEXT_PUBLIC_HF_API_TOKEN)
    THEN [status |-> 200,
          body |-> [status |-> "healthy",
                    services |-> [frontend |-> "operational", supabase |-> "configured",
                                  huggingface |-> "configured"],
                    environment |-> [node_env |-> env.NODE_ENV,
                                     next_public_app_name |-> env.NEXT_PUBLIC_APP_NAME]]]
    ELSE [status |-> 500, body |-> [status |-> "unhealthy", error |-> "Health check failed"]]

Handler(method, env) ==
    IF method # "GET" THEN [status |-> 405, body |-> [error |-> "Method not allowed"]]
    ELSE [status |-> 200,
          body |-> [status |-> "healthy",
                    services |->
                        [frontend |-> "operational",
                         supabase |-> IF EnvTruthy(env.NEXT_PUBLIC_SUPABASE_URL)
                                      THEN "configured" ELSE "not_configured",
                         huggingface |-> IF EnvTruthy(env.NEXT_PUBLIC_HF_API_TOKEN)
                                         THEN "configured" ELSE "not_configured"],
                    environment |-> [node_env |-> env.NODE_ENV,
                                     next_public_app_name |-> env.NEXT_PUBLIC_APP_NAME]]]

NoHealthCall == [api |-> "none", method |-> "none", env |-> Null, result |-> Null]

RequestHealth ==
    /\ \E method \in Methods, env \in Environments :
           call' = [api |-> "health", method |-> method, env |-> env,
                    result |-> Handler(method, env)]
    /\ UNCHANGED <<session, users, conversations, messages, documents, clock,
                   convList, current, shown, chat, hfToken, app>>

-----------------------------------------------------------------------------
(* The specifications *)

SeedUsers ==
    [u \in UserIds |->
        [id |-> u, role |-> IF u = "u1" THEN "user" ELSE "admin", is_active |-> TRUE,
         full_name |-> "name", department |-> "dept", job_title |-> "job"]]

SeedConversations ==
    <<[id |-> 1, title |-> "New Chat", user_id |-> "u1", created_at |-> 1],
      [id |-> 2, title |-> "New Chat", user_id |-> "u2", created_at |-> 2]>>

SeedMessage(id, message_type, text) ==
    [id |-> id, conversation_id |-> 1, message_type |-> message_type,
     content |-> Lit(text), created_at |-> id]

\* three exchanges in conversation 1
SeedMessages ==
    <<SeedMessage(3, "user", "first"), SeedMessage(4, "assistant", "answer"),
      SeedMessage(5, "user", "second"), SeedMessage(6, "assistant", "answer"),
      SeedMessage(7, "user", "third"), SeedMessage(8, "assistant", "answer")>>


Document(id, userId, text) ==
    [id |-> id, uploaded_by |-> userId, extracted_text |-> text, embedding |-> text # NoText,
     created_at |-> id]

SeedDocuments ==
    {<<>>,
     <<Document(9, "u1", 400), Document(10, "u2", 400), Document(11, "u1", 600)>>,
     <<Document(9, "u1", 400), Document(10, "u2", 400), Document(11, "u1", NoText)>>}

\* the clock starts after the seeded rows
SeedClock == Len(SeedConversations) + Len(SeedMessages) + 3 + 1


\* no API call is in flight
Idle == chat.pc \in {"idle", "done", "failed"}

Init ==
    /\ session = NoUser
    /\ users = SeedUsers
    /\ conversations = SeedConversations
    /\ messages = SeedMessages
    /\ documents \in SeedDocuments
    /\ clock = SeedClock
    /\ convList = <<>>
    /\ current = NoConversation
    /\ shown = <<>>
    /\ chat = IdleChat
    /\ call = Pending
    /\ hfToken \in {0, 40}
    /\ app = NoApp

\* a caller that awaits each call of the API layer before the next; the
\* session may end or begin at any await
Next ==
    \/ SignIn
    \/ SessionEnds
    \/ Idle /\ CallListConversations
    \/ Idle /\ ListDocuments
    \/ CallChat
    \/ ChatAddUser
    \/ ChatLoadMessages
    \/ ChatLoadDocuments
    \/ ChatGenerate
    \/ ChatAddAssistant

Spec == Init /\ [][Next]_vars

\* the chat page of a signed-in user, with its handlers interleaved at their
\* awaits; every request may fail
InitPage ==
    /\ session = "u1"
    /\ users = SeedUsers
    /\ conversations = SeedConversations
    /\ messages = SeedMessages
    /\ documents = <<>>
    /\ clock = SeedClock
    /\ convList = <<>>
    /\ current = NoConversation
    /\ shown = <<>>
    /\ chat = IdleChat
    /\ call = Pending
    /\ hfToken = 0
    /\ app = NoApp

NextPage ==
    \/ LoadConversations
    \/ CreateNewConversation
    \/ SelectConversation
    \/ SendMessage
    \/ ChatAddUser
    \/ ChatLoadMessages
    \/ ChatLoadDocuments
    \/ ChatGenerate
    \/ ChatAddAssistant

SpecPage == InitPage /\ [][NextPage]_vars

\* the users table under requests of signed-in and signed-out clients
UserRows ==
    {[u \in UserIds |->
        [id |-> u, role |-> IF u = "u1" THEN r1 ELSE r2,
         is_active |-> IF u = "u1" THEN TRUE ELSE a2,
         full_name |-> "name", department |-> "dept", job_title |-> "job"]] :
     r1 \in {"user", "guest"}, r2 \in {"admin", "super_admin"}, a2 \in BOOLEAN}

InitUsers ==
    /\ session = NoUser
    /\ users \in UserRows
    /\ conversations = SeedConversations
    /\ messages = SeedMessages
    /\ documents = <<>>
    /\ clock = SeedClock
    /\ convList = <<>>
    /\ current = NoConversation
    /\ shown = <<>>
    /\ chat = IdleChat
    /\ call = NoUsersCall
    /\ hfToken = 0
    /\ app = NoApp

NextUsers ==
    \/ SignIn
    \/ SessionEnds
    \/ UpdateProfile
    \/ UpdateUsersRow
    \/ ToggleUserActive

SpecUsers == InitUsers /\ [][NextUsers]_vars

\* the app shell of one browser against the backend
InitSession ==
    /\ session = NoUser
    /\ users \in UserRows
    /\ conversations = SeedConversations
    /\ messages = SeedMessages
    /\ documents = <<>>
    /\ clock = SeedClock
    /\ convList = <<>>
    /\ current = NoConversation
    /\ shown = <<>>
    /\ chat = IdleChat
    /\ call = Pending
    /\ hfToken = 0
    /\ app = NoApp

NextSession ==
    \/ Login
    \/ HandleLogout
    \/ SignOutEnds
    \/ FollowPush
    \/ OpenAdminPage
    \/ AppStart
    \/ HandleToggleUserActive
    \/ HandleDeleteUser
    \/ SubmitEditUser

SpecSession == InitSession /\ [][NextSession]_vars

\* what localStorage can hold when the app starts: nothing, a user some
\* earlier run stored, or text that is not JSON
StoredUsers ==
    {NoAppUser, Unparsable}
        \cup {[user |-> u, role |-> SeedUsers[u].role, is_active |-> TRUE,
               full_name |-> SeedUsers[u].full_name] : u \in UserIds}

\* one browser from its first load on, with every user active at first
InitLogin ==
    /\ session = NoUser
    /\ users = SeedUsers
    /\ conversations = SeedConversations
    /\ messages = SeedMessages
    /\ documents = <<>>
    /\ clock = SeedClock
    /\ convList = <<>>
    /\ current = NoConversation
    /\ shown = <<>>
    /\ chat = IdleChat
    /\ call = Pending
    /\ hfToken = 0
    /\ \E stored \in StoredUsers, token \in BOOLEAN :
           app = [NoApp EXCEPT !.stored = stored, !.token = token]

NextLogin ==
    \/ Login
    \/ HandleLogout
    \/ SignOutEnds
    \/ FollowPush
    \/ OpenAdminPage
    \/ AppStart
    \/ HandleToggleUserActive
    \/ HandleDeleteUser
    \/ SubmitEditUser

SpecLogin == InitLogin /\ [][NextLogin]_vars

\* uploads: callers of the API layer and the upload page of one browser
InitUpload ==
    /\ session = NoUser
    /\ users = SeedUsers
    /\ conversations = SeedConversations
    /\ messages = SeedMessages
    /\ documents = <<>>
    /\ clock = SeedClock
    /\ convList = <<>>
    /\ current = NoConversation
    /\ shown = <<>>
    /\ chat = IdleChat
    /\ call = Pending
    /\ hfToken \in {0, 40}
    /\ app = NoApp

NextUpload ==
    \/ SignIn
    \/ SessionEnds
    \/ CallDocumentUpload
    \/ CallUploadDocument
    \/ LoadProjects
    \/ SelectProject
    \/ OnDrop
    \/ UploadFile
    \/ UploadAllFiles

SpecUpload == InitUpload /\ [][NextUpload]_vars

\* callers of conversationAPI.create and conversationAPI.list
InitConversations ==
    /\ session = NoUser
    /\ users = SeedUsers
    /\ conversations = SeedConversations
    /\ messages = SeedMessages
    /\ documents = <<>>
    /\ clock = SeedClock
    /\ convList = <<>>
    /\ current = NoConversation
    /\ shown = <<>>
    /\ chat = IdleChat
    /\ call = Pending
    /\ hfToken = 0
    /\ app = NoApp

NextConversations ==
    \/ SignIn
    \/ SessionEnds
    \/ CallCreateConversation
    \/ CallListConversations

SpecConversations == InitConversations /\ [][NextConversations]_vars

\* callers of AIService; raw is the text the model generates in this run
InitService ==
    /\ session = NoUser
    /\ users = SeedUsers
    /\ conversations = SeedConversations
    /\ messages = SeedMessages
    /\ documents = <<>>
    /\ clock = SeedClock
    /\ convList = <<>>
    /\ current = NoConversation
    /\ shown = <<>>
    /\ chat = IdleChat
    /\ \E raw \in RawTexts : call = NoServiceCall(raw)
    /\ hfToken \in TokenLengths
    /\ app = NoApp

NextService ==
    \/ CallGenerateResponse
    \/ CallGenerateEmbeddings
    \/ CallIsAvailable
    \/ CallGetStatus

SpecService == InitService /\ [][NextService]_vars

\* requests to the health endpoint
InitHealth ==
    /\ session = NoUser
    /\ users = SeedUsers
    /\ conversations = SeedConversations
    /\ messages = SeedMessages
    /\ documents = <<>>
    /\ clock = SeedClock
    /\ convList = <<>>
    /\ current = NoConversation
    /\ shown = <<>>
    /\ chat = IdleChat
    /\ call = NoHealthCall
    /\ hfToken = 0
    /\ app = NoApp

NextHealth == RequestHealth

SpecHealth == InitHealth /\ [][NextHealth]_vars

\* the documents page of one browser.  Previous and Next are left out: the
\* pagination is never rendered, as totalPages never exceeds 1
InitDocuments ==
    /\ session = NoUser
    /\ users = SeedUsers
    /\ conversations = SeedConversations
    /\ messages = SeedMessages
    /\ documents \in SeedDocuments
    /\ clock = SeedClock
    /\ convList = <<>>
    /\ current = NoConversation
    /\ shown = <<>>
    /\ chat = IdleChat
    /\ call = Pending
    /\ hfToken = 0
    /\ app = NoApp

NextDocuments ==
    \/ SignIn
    \/ SessionEnds
    \/ MountDocumentsPage
    \/ ChangeSearchQuery
    \/ ChangeProjectFilter

SpecDocuments == InitDocuments /\ [][NextDocuments]_vars

-----------------------------------------------------------------------------
(* Claims about conversationAPI.chat *)

\* the rows of the conversation of the chat call, as a set
ChatRows == {m \in Range(messages) : m.conversation_id = chat.conv}

\* C1: a chat call that returns has stored exactly two new messages in the given
\* conversation, first the user message with the submitted content, stored
\* before the AI service is called, then one assistant message; the returned
\* message is the stored assistant row (id, created_at, content) with
\* message_type 'assistant'.
C1_ChatStoresUserThenAssistant ==
    /\ chat.generated > 0 =>
        /\ Len(messages) >= chat.before + 1
        /\ messages[chat.before + 1] = chat.userRow
        /\ chat.userRow.message_type = "user"
        /\ chat.userRow.content = chat.content
        /\ chat.userRow.conversation_id = chat.conv
    /\ chat.pc = "done" =>
        /\ Len(messages) = chat.before + 2
        /\ messages[chat.before + 1].message_type = "user"
        /\ messages[chat.before + 1].content = chat.content
        /\ messages[chat.before + 1].conversation_id = chat.conv
        /\ messages[chat.before + 2].message_type = "assistant"
        /\ messages[chat.before + 2].conversation_id = chat.conv
        /\ messages[chat.before + 1].created_at < messages[chat.before + 2].created_at
        /\ chat.result.message_type = "assistant"
        /\ chat.result.conversation_id = chat.conv
        /\ chat.result.id = messages[chat.before + 2].id
        /\ chat.result.created_at = messages[chat.before + 2].created_at
        /\ chat.result.content = messages[chat.before + 2].content

C1_Witness ==
    /\ chat.pc = "done"
    /\ chat.ai.success
    /\ chat.result.content = Lit("answer")

\* C2: when generateResponse reports failure (no token, non-OK status, unexpected
\* body, thrown error) and both message writes are accepted, the chat call does
\* not throw and stores and returns an assistant message with non-empty content;
\* the call throws only when a message write is rejected.
C2_FallbackWhenAIFails ==
    /\ chat.pc = "failed" => chat.error = "insert rejected"
    /\ (chat.pc = "addAssistant" /\ ~chat.ai.success) => Truthy(chat.response)
    /\ (chat.pc = "done" /\ ~chat.ai.success) =>
        /\ Truthy(chat.result.content)
        /\ messages[Len(messages)].message_type = "assistant"
        /\ messages[Len(messages)].content = chat.result.content

C2_Witness ==
    /\ chat.pc = "done"
    /\ ~chat.ai.success
    /\ chat.ai.error = ErrFetch

\* C3: the context handed to generateResponse is the rendering of at most the 5
\* most recent messages of the conversation in ascending created_at order, the
\* just stored user message among them, each as '<message_type>: <content>',
\* followed by at most the first 500 characters of the extracted text of the
\* newest document of the current user and of no other document; a part that
\* fails to load is left out and the call goes on.
C3_Recent == {m \in ChatRows :
                 Cardinality({x \in ChatRows : x.created_at > m.created_at}) < 5}

C3_Line(i) == CHOOSE m \in C3_Recent :
                 Cardinality({x \in C3_Recent : x.created_at < m.created_at}) = i - 1

C3_Rendered(i) ==
    LET m == C3_Line(i) IN
    <<[s |-> m.message_type, n |-> 0], [s |-> ": ", n |-> 0]>> \o m.content

RECURSIVE C3_Lines(_)
C3_Lines(i) ==
    IF i = 0 THEN <<>>
    ELSE IF i = 1 THEN C3_Rendered(1)
    ELSE C3_Lines(i - 1) \o <<[s |-> "\n", n |-> 0]>> \o C3_Rendered(i)

C3_MessagePart == C3_Lines(Cardinality(C3_Recent))

C3_OwnDocuments == {d \in Range(documents) : d.uploaded_by = chat.docUser}

C3_DocumentPart ==
    IF chat.docUser = NoUser \/ C3_OwnDocuments = {} THEN <<>>
    ELSE LET d == CHOOSE x \in C3_OwnDocuments :
                      \A y \in C3_OwnDocuments : y.created_at <= x.created_at
         IN  IF d.extracted_text <= 0 THEN <<>>
             ELSE <<[s |-> "\n\nDocument Context: ", n |-> 0],
                    [s |-> ToString(d.id),
                     n |-> IF d.extracted_text > 500 THEN 500 ELSE d.extracted_text],
                    [s |-> "...", n |-> 0]>>

C3_ContextOfChat ==
    /\ chat.pc \in {"generate", "addAssistant"} =>
        /\ chat.userRow \in C3_Recent
        /\ \E m \in {<<>>, C3_MessagePart}, d \in {<<>>, C3_DocumentPart} :
              chat.context = m \o d
    /\ (chat.pc = "failed" /\ chat.generated = 0) =>
        /\ chat.error = "insert rejected"
        /\ Len(messages) = chat.before

C3_Witness ==
    /\ chat.pc = "generate"
    /\ Cardinality(ChatRows) > 5
    /\ chat.context = C3_MessagePart \o C3_DocumentPart
    /\ \E i \in 1..Len(chat.context) : chat.context[i].n = 500


C19_FallbackIsTheAssistantMessage ==
    /\ (chat.generated = 1 /\ chat.ai.error \in {ErrFetch, ErrThrown, ErrElement}) =>
           chat.ai.fallback \in {FallbackWithContext, FallbackNoContext}
    /\ (chat.pc = "done" /\ Truthy(chat.ai.fallback)) =>
           /\ chat.result.content = chat.ai.fallback
           /\ messages[Len(messages)].content = chat.ai.fallback

-----------------------------------------------------------------------------
(* Claims about what the chat page shows and what the list calls return *)

\* the stored messages of a conversation in the form the chat page shows
C4_Stored(id) ==
    Map(OrderAscending(SelectSeq(messages, LAMBDA m : m.conversation_id = id)),
        LAMBDA m : [id |-> m.id, type |-> m.message_type, content |-> m.content,
                    timestamp |-> m.created_at])

\* C4: selectConversation makes the shown message list equal to the stored
\* messages of the selected conversation, in their stored order.
C4_SelectShowsStoredMessages ==
    [][SelectConversation => shown' = C4_Stored(current'.id)]_vars

C5_OwnDocuments == {d \in Range(documents) : d.uploaded_by = call.user}

C5_OwnConversations == {c \in Range(conversations) : c.user_id = call.user}

C5_CountOf(id) == Cardinality({m \in Range(messages) : m.conversation_id = id})

C6_WritesNeedAuthentication ==
    (call.api = "conversationAPI.chat" /\ ~call.authed) =>
        /\ ~call.ok
        /\ call.error = "Not authenticated"
        /\ call.writes = {}


-----------------------------------------------------------------------------
(* Claims about the users table *)

\* C8: the role of an existing users row changes only through an update made
\* with the session of an active user whose own role is 'super_admin'.
C8_OnlySuperAdminChangesRoles ==
    [][\A u \in UserIds :
          users'[u].role # users[u].role =>
              /\ session \in UserIds
              /\ users[session].role = "super_admin"
              /\ users[session].is_active]_vars

C9_OwnUpdate ==
    /\ call.api \in {"userAPI.updateProfile", "users.update"}
    /\ call.sent
    /\ call.actorRole \in {"user", "guest"}
    /\ call.target = call.actor

\* C9: for a current user with role 'user' or 'guest', userAPI.updateProfile
\* targets that user's own row and sends neither role nor email; an update of
\* the own row that would change role or is_active is rejected and leaves the
\* row unchanged, and an update of full_name, department or job_title alone is
\* accepted and stored.
C9_OwnProfileExceptRoleAndActive ==
    /\ (call.api = "userAPI.updateProfile" /\ call.sent
            /\ call.actorRole \in {"user", "guest"}) =>
        /\ call.target = call.actor
        /\ call.columns \subseteq {"full_name", "department", "job_title", "is_active"}
    /\ C9_OwnUpdate =>
        IF call.after.role # call.before.role \/ call.after.is_active # call.before.is_active
        THEN ~call.ok /\ users[call.target] = call.before
        ELSE call.ok /\ users[call.target] = call.after

C9_Witness ==
    /\ C9_OwnUpdate
    /\ call.api = "userAPI.updateProfile"
    /\ call.ok
    /\ call.after.full_name # call.before.full_name
    /\ call.n = 2


-----------------------------------------------------------------------------
(* Claims about the app shell *)

\* C7: for an app user whose role is neither 'admin' nor 'super_admin', and for
\* no user at all, the user-management page never calls loadUsers and navigates
\* away, to /dashboard and /login respectively; the Administration entries of
\* the navigation are shown only to admin and super_admin.
C7_AdminPanelOnlyForAdmins ==
    /\ app.requests \subseteq {"admin", "super_admin"}
    /\ (app.route = AdminPage /\ app.user.user = NoUser) => app.push = "/login"
    /\ (app.route = AdminPage /\ app.user.user # NoUser
            /\ app.user.role \notin {"admin", "super_admin"}) =>
        /\ app.push = "/dashboard"
        /\ app.userList = {}
    /\ AdminNavShown => app.user.role \in {"admin", "super_admin"}

C7_Witness ==
    /\ app.route = AdminPage
    /\ app.user.user = "u1"
    /\ app.user.role \in {"user", "guest"}
    /\ app.push = "/dashboard"
    /\ app.requests # {}

\* C10: once handleLogout has reported 'Logged out successfully', the user of
\* the app is null, localStorage holds neither 'user' nor 'access_token' and
\* the Supabase session has ended; the report is never made while the sign-out
\* is pending or has failed.
C10_LogoutClearsSession ==
    app.toast = "Logged out successfully" =>
        /\ app.user.user = NoUser
        /\ app.stored.user = NoUser
        /\ ~app.token
        /\ app.signOut = "done"
        /\ session = NoUser


-----------------------------------------------------------------------------
(* Claims about uploads *)

\* C11: whenever documentAPI.upload or conversationAPI.uploadDocument returns
\* successfully, the stored row of the document it reports holds the extracted
\* text and an embedding.
C11_UploadedDocumentsAreProcessed ==
    (call.api \in {"documentAPI.upload", "conversationAPI.uploadDocument"} /\ call.ok) =>
        \E d \in Range(documents) :
            /\ d.id = call.data[1]
            /\ d.extracted_text # NoText
            /\ d.embedding

-----------------------------------------------------------------------------
(* Claims about conversationAPI.create and list *)

C13_Stored(id) == {m \in Range(messages) : m.conversation_id = id}

\* what a successful list call says about the table
C13_ListIsOfTable ==
    (call.api = "conversationAPI.list" /\ call.ok) =>
        \A i \in 1..Len(call.data) :
            /\ \E c \in Range(conversations) :
                  /\ c.id = call.data[i].id
                  /\ c.user_id = call.user
                  /\ c.title = call.data[i].title
            /\ call.data[i].message_count \in {0, Cardinality(C13_Stored(call.data[i].id))}

\* a successful create followed by a successful list of the same user
C13_CreateThenList ==
    /\ call.api = "conversationAPI.create"
    /\ call.ok
    /\ call'.api = "conversationAPI.list"
    /\ call'.ok
    /\ call'.user = call.user

-----------------------------------------------------------------------------
(* Claims about AIService and the health endpoint *)

\* C14: without a token generateResponse and generateEmbeddings resolve to
\* success = false with their configuration error and isAvailable to false,
\* none of them issuing a request; getStatus reports configured only for a
\* token that is present and longer than 10 characters, and tokenPresent =
\* false exactly for the empty token.
C14_WithoutTokenNoRequest ==
    /\ (hfToken = 0 /\ call.api = "generateResponse") =>
           /\ ~call.result.success
           /\ call.result.error = ErrNotConfigured
           /\ call.result.fetches = 0
    /\ (hfToken = 0 /\ call.api = "generateEmbeddings") =>
           /\ ~call.result.success
           /\ call.result.error = ErrEmbedNotConfigured
           /\ call.result.fetches = 0
    /\ (hfToken = 0 /\ call.api = "isAvailable") =>
           ~call.result.value /\ call.result.fetches = 0
    /\ call.api = "getStatus" =>
           /\ call.result.configured => (hfToken # 0 /\ hfToken > 10)
           /\ ~call.result.tokenPresent <=> hfToken = 0

C14_Witness ==
    /\ hfToken = 0
    /\ call.api = "isAvailable"
    /\ call.http = "ok"
    /\ ~call.result.value

\* C16: the health endpoint answers a request that is not a GET with 405 and
\* an error body, and a GET with 200 and status healthy, in which supabase
\* and huggingface are configured exactly when their environment variable has
\* a value (an empty value counts as not set); no environment makes a GET
\* answer anything but 200.
C16_HealthAnswers ==
    call.api = "health" =>
        IF call.method # "GET"
        THEN call.result.status = 405 /\ "error" \in DOMAIN call.result.body
        ELSE /\ call.result.status = 200
             /\ call.result.body.status = "healthy"
             /\ call.result.body.services.supabase = "configured"
                    <=> EnvTruthy(call.env.NEXT_PUBLIC_SUPABASE_URL)
             /\ call.result.body.services.huggingface = "configured"
                    <=> EnvTruthy(call.env.NEXT_PUBLIC_HF_API_TOKEN)

C16_Witness ==
    /\ call.api = "health"
    /\ call.method = "GET"
    /\ call.env.NEXT_PUBLIC_SUPABASE_URL = Null
    /\ call.env.NEXT_PUBLIC_HF_API_TOKEN = Null
    /\ call.result.status = 200

\* C18 as stated: generateResponse resolves to success = true exactly when
\* the status is OK and the body is a non-empty array, and every failure
\* carries a non-empty error.
C18_SuccessIffOkAndNonEmptyArray ==
    call.api = "generateResponse" =>
        /\ call.result.success <=> (hfToken # 0 /\ call.http \in {"ok", "badElement"})
        /\ ~call.result.success => call.result.error # EmptyStr

\* C18, amended: generateResponse always resolves; success = true exactly
\* when the status is OK, the body is a non-empty array and the generated_text
\* of its first element can be read as a string; every failure carries a
\* non-empty error; a thrown fetch, JSON or clean-up error becomes a failure.
C18_SuccessIffOkAndReadableArray ==
    call.api = "generateResponse" =>
        /\ call.result.success \in BOOLEAN
        /\ call.result.success <=> (hfToken # 0 /\ call.http = "ok")
        /\ ~call.result.success => call.result.error # EmptyStr
        /\ call.http \in {"throwFetch", "throwOther", "badElement"} => ~call.result.success

C18_Witness ==
    /\ call.api = "generateResponse"
    /\ hfToken # 0
    /\ call.http = "throwOther"
    /\ ~call.result.success
    /\ call.result.error = ErrThrown

\* C20: the response of a successful generateResponse contains none of <s>,
\* </s>, [INST], [/INST] and neither starts nor ends with whitespace.
C20_NoArtifactsInResponse ==
    (call.api = "generateResponse" /\ call.result.success) =>
        /\ \A a \in Artifacts : ~Includes(call.result.response, a)
        /\ call.result.response = Trim(call.result.response)

-----------------------------------------------------------------------------
(* Claims about the documents page *)

\* C17: after a loadDocuments that succeeded the page displays the documents
\* documentAPI.list returned for the current user and total is their number;
\* page stays within 1..max(1, totalPages).
C17_PageShowsListedDocuments ==
    /\ app.docs.loaded =>
           /\ app.docs.documents = app.docs.returned
           /\ app.docs.total = Len(app.docs.returned)
    /\ app.docs.page \in 1..Max(1, app.docs.totalPages)

-----------------------------------------------------------------------------
(* Claims about login and the stored session *)

\* a step of the login page in which authAPI.login succeeded
LoginSucceeds == Login /\ app'.toast = "Welcome back"

\* the account type selected on the form changes nothing of what
\* authAPI.login answers
C21_AccountTypeIgnored ==
    \A u \in UserIds, profileOk \in BOOLEAN, a1 \in AccountTypes, a2 \in AccountTypes :
        AuthLogin(u, a1, profileOk) = AuthLogin(u, a2, profileOk)

\* a login gives no admin rights to an account whose profile says user or guest
C21_NoRightsFromForm ==
    LoginSucceeds =>
        /\ app'.token
        /\ app'.user.user = session'
        /\ users[session'].role \in {"user", "guest"} => ~IsAdmin(app'.user)

\* C21 as stated: after a login the session user's role, is_active and
\* full_name are those of the profile row of the authenticated account; the
\* account type selected on the form changes neither the session user nor the
\* token and gives no admin rights.
C21_LoginTakesProfileRow ==
    /\ []C21_AccountTypeIgnored
    /\ [][C21_NoRightsFromForm]_vars
    /\ [][LoginSucceeds =>
            /\ app'.user.role = users[session'].role
            /\ app'.user.is_active = users[session'].is_active
            /\ app'.user.full_name = users[session'].full_name]_vars

\* C21, amended: after a login the session user's role, is_active and
\* full_name are those of the profile row of the authenticated account, or all
\* three are undefined when the profile row could not be loaded; the account
\* type selected on the form changes neither the session user nor the token
\* and gives no admin rights.
C21_LoginTakesProfileRowIfLoaded ==
    /\ []C21_AccountTypeIgnored
    /\ [][C21_NoRightsFromForm]_vars
    /\ [][LoginSucceeds =>
            \/ /\ app'.user.role = users[session'].role
               /\ app'.user.is_active = users[session'].is_active
               /\ app'.user.full_name = users[session'].full_name
            \/ /\ app'.user.role = Null
               /\ app'.user.is_active = Null
               /\ app'.user.full_name = Null]_vars

C21_Witness ==
    /\ app.toast = "Welcome back"
    /\ app.accountType = "super_admin"
    /\ app.user.user = "u1"
    /\ app.user.role = users["u1"].role
    /\ app.user.role \in {"user", "guest"}
    /\ app.token

\* C22: the user of the app is non-null only while localStorage holds both
\* 'access_token' and 'user'; an app start that finds a token and user data
\* that JSON.parse rejects leaves the user null and removes both keys, and an
\* app start without a token restores no user.
C22_UserOnlyWithStoredSession ==
    /\ [](app.user.user # NoUser => (app.token /\ app.stored.user # NoUser))
    /\ [][AppStart =>
            /\ (app.token /\ app.stored = Unparsable) =>
                   /\ app'.user = NoAppUser
                   /\ app'.stored = NoAppUser
                   /\ ~app'.token
            /\ ~app.token => app'.user = NoAppUser
            /\ app'.user # NoAppUser => app'.user = app.stored]_vars

C22_Witness ==
    /\ app.user.user \in UserIds
    /\ app.user = app.stored
    /\ app.token
    /\ app.toast = "none"
    /\ session = NoUser

\* C26: a user whose is_active an admin has set to false obtains no session
\* through a login, and no app start restores a stored session for that user.
C26_DeactivatedUserHasNoSession ==
    [][/\ LoginSucceeds => users[session'].is_active
       /\ (AppStart /\ app'.user.user \in UserIds) => users[app'.user.user].is_active]_vars

-----------------------------------------------------------------------------
(* Claims about sendMessage on the chat page *)

\* C23: when conversationAPI.chat has rejected, no message of that call is
\* stored: the messages table is as it was when the call began.
C23_FailedSendLeavesNoTrace ==
    chat.pc = "failed" => messages = SubSeq(messages, 1, chat.before)

\* the step in which sendMessage receives the answer of conversationAPI.chat
C24_ReplyArrives == chat.caller = "page" /\ chat.pc = "addAssistant" /\ chat'.pc = "done"

\* the step in which sendMessage catches the rejection of conversationAPI.chat
C24_SendFails == chat.caller = "page" /\ chat.pc # "failed" /\ chat'.pc = "failed"

\* C24: the reply of a pending sendMessage is appended only while the
\* conversation it was sent in is the current one, whatever
\* createNewConversation and selectConversation did meanwhile; and what the
\* failure path removes is the optimistic user message of that send.
C24_RepliesStayInTheirConversation ==
    [][/\ C24_ReplyArrives => current.id = chat.conv
       /\ (C24_SendFails /\ shown' # shown) =>
              /\ shown[Len(shown)].type = "user"
              /\ shown[Len(shown)].content = chat.content]_vars

\* C25: a successful send leaves the title and created_at of the current
\* conversation and of every entry of the conversation list as they were.
C25_SendKeepsConversationMetadata ==
    [][C24_ReplyArrives =>
          /\ current.id = chat.conv =>
                 /\ current'.title = current.title
                 /\ current'.created_at = current.created_at
          /\ Len(convList') = Len(convList)
          /\ \A i \in 1..Len(convList) :
                 /\ convList'[i].id = convList[i].id
                 /\ convList'[i].title = convList[i].title
                 /\ convList'[i].created_at = convList[i].created_at]_vars


====
